---------------------------- MODULE Spec2Model ----------------------------
(***************************************************************************)
(* Sunco Analytics dashboard (src/app.py): a Streamlit script that is     *)
(* re-run from top to bottom on every browser interaction.  The model has *)
(* the relational store (users, sales, launched_products), the process-   *)
(* wide st.cache_data store of load_data, the session's st.session_state  *)
(* and the outcome of the last script run.  One action is one browser     *)
(* event: the widget callback (if any) followed by the whole script run.  *)
(***************************************************************************)
EXTENDS Integers, Sequences, FiniteSets, TLC

VARIABLES
    users,              \* table users: set of rows, username is the key
    sales,              \* table sales: sequence of rows (insertion order)
    launched_products,  \* table launched_products: set of rows
    cache,              \* st.cache_data store of load_data: query text -> DataFrame
    session_state,      \* st.session_state of the browser session
    screen,             \* what the browser shows: "none", "login", "app"
    last_event,         \* kind of the last step: "none", "run", "ingest"
    lastRun             \* outcome of the last script run

vars == <<users, sales, launched_products, cache, session_state, screen,
          last_event, lastRun>>

-----------------------------------------------------------------------------
(* Bounds of the model                                                     *)

\* rows of sales, entries of the cache_data store, rows of users
MaxSales == 2
MaxCache == 1
MaxUsers == 3

-----------------------------------------------------------------------------
(* Python values.  DataFrame cells are tagged the way Python objects are   *)
(* typed, so that an int, a Decimal, a str and None are always unequal.    *)

PyNone == [none |-> TRUE]
PyInt(n) == [int |-> n]
PyStr(s) == [str |-> s]
\* a Decimal / float amount of num/den cents, in lowest terms
RECURSIVE Gcd(_, _)
Gcd(a, b) == IF b = 0 THEN a ELSE Gcd(b, a % b)
PyNum(num, den) ==
    LET g == Gcd(num, den)
    IN  IF num = 0 THEN [num |-> 0, den |-> 1] ELSE [num |-> num \div g, den |-> den \div g]

IsInt(v) == DOMAIN v = {"int"}
IsNone(v) == DOMAIN v = {"none"}
IsStr(v) == DOMAIN v = {"str"}

\* the value session_state.get / a verification result uses for Python's None
None == "None"

-----------------------------------------------------------------------------
(* Dates are YYYYMMDD integers; str() of a date and of a datetime          *)

MinDate == 20240101
MaxDate == 20250831
LaunchStartDefault == 20250101
LaunchEndDefault == 20250430
LaunchMaxDate == 20251231

Pad2(n) == IF n < 10 THEN "0" \o ToString(n) ELSE ToString(n)
Pad3(n) == IF n < 10 THEN "00" \o ToString(n) ELSE IF n < 100 THEN "0" \o ToString(n) ELSE ToString(n)

\* str(datetime.date(y, m, d))
DateStr(d) == ToString(d \div 10000) \o "-" \o Pad2((d \div 100) % 100) \o "-" \o Pad2(d % 100)
\* str(datetime.datetime(y, m, d))
DateTimeStr(d) == DateStr(d) \o " 00:00:00"

\* a Python date or datetime object, as the widgets and lines 117-127 produce
PyDate(d) == [date |-> d, time |-> FALSE]
PyDateTime(d) == [date |-> d, time |-> TRUE]
\* f"{start_date}" : the literal interpolated into the SQL text
Literal(pd) == IF pd.time THEN DateTimeStr(pd.date) ELSE DateStr(pd.date)

-----------------------------------------------------------------------------
(* Authentication: check_password and its nested functions                *)

\* hashlib.sha256(password.encode()).hexdigest()
hash_password(password) ==
    CASE password = "" -> "e3b0c44298fc1c149afbf4c8996fb92427ae41e4649b934ca495991b7852b855"
      [] password = "secret" -> "2bb80d537b1da3e38bd30361aa855686bde0eacd7162fef6a25fe97bf527a25b"
      [] password = "wrong" -> "8810ad581e59f2bc3928b261707a71308f7e139eb04820366dc4d5c18d980225"
      [] password = "pw" -> "30c952fab122c3f9759f02a6d95c3758b246b4fee239957b2d4fee46e26170c4"

\* session_state.get(key, default)
Get(ss, key, default) == IF key \in DOMAIN ss THEN ss[key] ELSE default

\* del session_state[k] for k in keys
Del(ss, keys) == [k \in (DOMAIN ss) \ keys |-> ss[k]]

\* session_state[key] = value
Put(ss, key, value) == [k \in (DOMAIN ss) \cup {key} |-> IF k = key THEN value ELSE ss[k]]

\* cursor.execute("SELECT password_hash, role FROM users WHERE username = %s");
\* cursor.fetchone(): the matching rows (at most one, username is the key)
SelectUser(table, username) == {r \in table : r.username = username}

\* a bug: grants access to any stored username, whatever the password
verify_credentials_anypass(table, username, password, fault) ==
    IF fault # "none" THEN <<FALSE, None>>
    ELSE LET result == SelectUser(table, username)
         IN  IF result # {} THEN <<TRUE, (CHOOSE r \in result : TRUE).role>>
             ELSE <<FALSE, None>>

\* verify_credentials(username, password); fault is where the store fails:
\* "connect" (get_connection raises), "execute" (the lookup raises), "none"
verify_credentials(table, username, password, fault) ==
    IF fault # "none" THEN <<FALSE, None>>
    ELSE LET result == SelectUser(table, username)
         IN  IF result # {}
             THEN LET row == CHOOSE r \in result : TRUE
                  IN  IF row.password_hash = hash_password(password)
                      THEN <<TRUE, row.role>>
                      ELSE <<FALSE, None>>
             ELSE <<FALSE, None>>

\* a bug: the failure branch clears nothing and the success branch is taken
\* whenever the lookup found a role
credentials_entered_lax(ss, table, fault) ==
    LET v == verify_credentials(table, ss["username"], ss["password"], fault)
    IN  Del(Put(Put(Put(ss, "password_correct", TRUE),
                    "logged_in_user", ss["username"]), "user_role", v[2]),
            {"password", "username"})

\* credentials_entered(): the on_change callback of both login inputs
credentials_entered(ss, table, fault) ==
    LET username == ss["username"]
        password == ss["password"]
        v == verify_credentials(table, username, password, fault)
    IN  IF v[1]
        THEN Del(Put(Put(Put(ss, "password_correct", TRUE),
                         "logged_in_user", username), "user_role", v[2]),
                 {"password", "username"})
        ELSE Put(ss, "password_correct", FALSE)

\* a bug: the gate lets every session through
check_password_open(ss) == TRUE

\* check_password(): True iff the session is already logged in
check_password(ss) == Get(ss, "password_correct", FALSE)

\* the login form registers its two keyed inputs in session_state
LoginForm(ss) ==
    [k \in (DOMAIN ss) \cup {"username", "password"} |->
        IF k \in DOMAIN ss THEN ss[k] ELSE ""]

\* line 99: the generic error under the login form
LoginError(ss) == "password_correct" \in DOMAIN ss /\ ~ss["password_correct"]

\* a bug: the panel is shown to every logged-in user
AdminPanel_any(ss) == Get(ss, "password_correct", FALSE)

\* line 136: the admin panel is rendered only for the admin role
AdminPanel(ss) == Get(ss, "user_role", None) = "admin"

-----------------------------------------------------------------------------
(* The relational store: the SQL of lines 190-197, 207-218, 226-238 and    *)
(* 276-287, evaluated over the tables.  Money is in cents.                 *)

\* the dates the model draws its rows and filter values from
SampleDates == {MinDate, 20240115, 20240601, 20240701, LaunchStartDefault, 20250115,
                LaunchEndDefault, MaxDate, LaunchMaxDate}

\* the store's cast of a quoted literal to a date ('2025-08-31 00:00:00' is
\* accepted and its time part dropped)
ParseDate(lit) == CHOOSE d \in SampleDates : lit = DateStr(d) \/ lit = DateTimeStr(d)

\* x BETWEEN lo AND hi
Between(x, lo, hi) == lo <= x /\ x <= hi

\* product identifiers in collation order
Skus == <<"A1", "B2", "C3">>
SkuRank(sku) == CHOOSE i \in DOMAIN Skus : Skus[i] = sku

RECURSIVE SumField(_, _)
\* SUM(field) over a non-empty sequence of rows
SumField(rows, field) ==
    IF rows = <<>> THEN 0 ELSE rows[1][field] + SumField(Tail(rows), field)

\* SUM(int column): NULL over no rows
SqlSumInt(rows, field) == IF rows = <<>> THEN PyNone ELSE PyInt(SumField(rows, field))
\* SUM(numeric column): NULL over no rows
SqlSumNum(rows, field) == IF rows = <<>> THEN PyNone ELSE PyNum(SumField(rows, field), 1)
\* AVG(numeric column): NULL over no rows
SqlAvg(rows, field) == IF rows = <<>> THEN PyNone ELSE PyNum(SumField(rows, field), Len(rows))
\* COALESCE(x, 0)
Coalesce(x, zero) == IF IsNone(x) THEN zero ELSE x

\* COUNT(DISTINCT master_sku)
CountDistinctSku(rows) == Cardinality({rows[i].master_sku : i \in DOMAIN rows})

\* every arrangement of the set S as a sequence
Perms(S) == {f \in [1..Cardinality(S) -> S] : \A x \in S : \E i \in DOMAIN f : f[i] = x}

\* ORDER BY key ASC, key a function on S: the arrangements of S in which no
\* row comes after one with a greater key; rows with equal keys come in any
\* order
OrderBy(S, key) ==
    {f \in Perms(S) : \A i, j \in DOMAIN f : i < j => key[f[i]] <= key[f[j]]}

\* LIMIT n
Limit(rows, n) == IF Len(rows) <= n THEN rows ELSE SubSeq(rows, 1, n)

BestSellersLimit == 20

\* the query text: the report's SQL with the two literals interpolated
Query(kind, lo, hi) == [kind |-> kind, lo |-> Literal(lo), hi |-> Literal(hi)]

\* lines 190-197
OverviewResult(q, salesT) ==
    LET lo == ParseDate(q.lo)
        hi == ParseDate(q.hi)
        rows == SelectSeq(salesT, LAMBDA s : Between(s.order_date, lo, hi))
    IN  << [total_skus |-> PyInt(CountDistinctSku(rows)),
            total_units |-> SqlSumInt(rows, "quantity_ordered"),
            total_revenue |-> SqlSumNum(rows, "sales_ordered")] >>

\* lines 207-218
BestSellersResults(q, salesT) ==
    LET lo == ParseDate(q.lo)
        hi == ParseDate(q.hi)
        rows == SelectSeq(salesT, LAMBDA s : Between(s.order_date, lo, hi))
        group(sku) == SelectSeq(rows, LAMBDA s : s.master_sku = sku)
        out == {[master_sku |-> PyStr(sku),
                 units_sold |-> SqlSumInt(group(sku), "quantity_ordered"),
                 revenue |-> SqlSumNum(group(sku), "sales_ordered"),
                 avg_price |-> SqlAvg(group(sku), "avg_price")] :
                sku \in {rows[i].master_sku : i \in DOMAIN rows}}
    IN  \* ORDER BY revenue DESC LIMIT 20
        {Limit(f, BestSellersLimit) : f \in OrderBy(out, [r \in out |-> -r.revenue.num])}

\* ORDER BY lp.created_at ASC, lp.sku ASC
LaunchSkuOrder(T) == [lp \in T |-> lp.created_at * (Len(Skus) + 1) + SkuRank(lp.sku)]

\* ORDER BY lp.created_at ASC
LaunchOrder(T) == [lp \in T |-> lp.created_at]

\* a bug: an inner join, which drops the products without a matching sale
ProductPerformanceResults_inner(q, salesT, launchedT) ==
    LET lo == ParseDate(q.lo)
        hi == ParseDate(q.hi)
        joined(lp) == SelectSeq(salesT, LAMBDA s :
                          s.master_sku = lp.sku /\ Between(s.order_date, lo, hi))
        row(lp) == [sku |-> PyStr(lp.sku),
                    launch_date |-> PyDate(lp.created_at),
                    total_units_sold |-> SqlSumInt(joined(lp), "quantity_ordered"),
                    total_revenue |-> SqlSumNum(joined(lp), "sales_ordered"),
                    average_price |-> SqlAvg(joined(lp), "avg_price")]
    IN  {[i \in DOMAIN f |-> row(f[i])] :
            f \in OrderBy({lp \in launchedT : joined(lp) # <<>>}, LaunchSkuOrder(launchedT))}

\* lines 226-238: the date filter is part of the join condition
ProductPerformanceResults(q, salesT, launchedT) ==
    LET lo == ParseDate(q.lo)
        hi == ParseDate(q.hi)
        joined(lp) == SelectSeq(salesT, LAMBDA s :
                          s.master_sku = lp.sku /\ Between(s.order_date, lo, hi))
        row(lp) == [sku |-> PyStr(lp.sku),
                    launch_date |-> PyDate(lp.created_at),
                    total_units_sold |-> Coalesce(SqlSumInt(joined(lp), "quantity_ordered"), PyInt(0)),
                    total_revenue |-> Coalesce(SqlSumNum(joined(lp), "sales_ordered"), PyNum(0, 1)),
                    average_price |-> Coalesce(SqlAvg(joined(lp), "avg_price"), PyNum(0, 1))]
    IN  {[i \in DOMAIN f |-> row(f[i])] : f \in OrderBy(launchedT, LaunchSkuOrder(launchedT))}

\* lines 276-287: the launch-date filter is a WHERE on launched_products
LaunchPeriodResults(q, salesT, launchedT) ==
    LET lo == ParseDate(q.lo)
        hi == ParseDate(q.hi)
        kept == {lp \in launchedT : Between(lp.created_at, lo, hi)}
        joined(lp) == SelectSeq(salesT, LAMBDA s : s.master_sku = lp.sku)
        row(lp) == [sku |-> PyStr(lp.sku),
                    launch_date |-> PyDate(lp.created_at),
                    units_sold |-> Coalesce(SqlSumInt(joined(lp), "quantity_ordered"), PyInt(0)),
                    revenue |-> Coalesce(SqlSumNum(joined(lp), "sales_ordered"), PyNum(0, 1))]
    IN  {[i \in DOMAIN f |-> row(f[i])] : f \in OrderBy(kept, LaunchOrder(kept))}

\* pd.read_sql_query(query, conn): the results the store may return
Execute(q, salesT, launchedT) ==
    CASE q.kind = "Overview" -> {OverviewResult(q, salesT)}
      [] q.kind = "Best Sellers" -> BestSellersResults(q, salesT)
      [] q.kind = "Product Performance by Launch Date" ->
            ProductPerformanceResults(q, salesT, launchedT)
      [] q.kind = "Launch Period Analysis" -> LaunchPeriodResults(q, salesT, launchedT)

-----------------------------------------------------------------------------
(* Data Loader: load_data under @st.cache_data (lines 31-37)               *)

\* load_data(query): C is the cache_data store, fault is where the store fails
\* ("connect": get_connection raises, "query": read_sql_query raises, "none"),
\* res is the table the store returns for the query
load_data(C, q, fault, res) ==
    IF q \in DOMAIN C
    THEN \* cache hit: the function body does not run
         [returned |-> TRUE, hit |-> TRUE, opened |-> FALSE, closed |-> FALSE,
          exception |-> "none", df |-> C[q], cache |-> C]
    ELSE IF fault = "connect"
    THEN \* line 34 raises: no connection was opened
         [returned |-> FALSE, hit |-> FALSE, opened |-> FALSE, closed |-> FALSE,
          exception |-> "OperationalError", df |-> <<>>, cache |-> C]
    ELSE IF fault = "query"
    THEN \* line 35 raises: line 36 is not reached
         [returned |-> FALSE, hit |-> FALSE, opened |-> TRUE, closed |-> FALSE,
          exception |-> "DatabaseError", df |-> <<>>, cache |-> C]
    ELSE [returned |-> TRUE, hit |-> FALSE, opened |-> TRUE, closed |-> TRUE,
          exception |-> "none", df |-> res,
          cache |-> [k \in (DOMAIN C) \cup {q} |-> IF k = q THEN res ELSE C[k]]]

\* a bug: the store hands out the stored object itself (as st.cache_resource
\* does), so the caller's in-place edits land in the store
StoreAfterCallerEdits_shared(C, q, edited) ==
    IF q \in DOMAIN C THEN [C EXCEPT ![q] = edited] ELSE C

\* st.cache_data hands every caller its own copy of the stored DataFrame: the
\* edits a caller makes to what it was given do not reach the store
StoreAfterCallerEdits(C, q, edited) == C

-----------------------------------------------------------------------------
(* float64.  pd.read_sql_query hands the numeric cells of a result over as *)
(* Python floats, and lines 202, 243-244, 293 and 295-296 format and sum   *)
(* floats.  A float is m * 2^e exactly, with m a natural number of at most *)
(* MantBits bits, kept as a sequence of limbs, least significant first.    *)
(* Only zero and positive normal values occur.                             *)

\* the width of a float64 significand
MantBits == 53
\* bits of a limb, and the limb's base
LimbBits == 15
Limb == 2^LimbBits

RECURSIVE Trim(_)
\* b without leading zero limbs
Trim(b) == IF b # <<>> /\ b[Len(b)] = 0 THEN Trim(SubSeq(b, 1, Len(b) - 1)) ELSE b

RECURSIVE BigOfInt(_)
BigOfInt(n) == IF n = 0 THEN <<>> ELSE <<n % Limb>> \o BigOfInt(n \div Limb)

RECURSIVE IntOfBig(_)
IntOfBig(b) == IF b = <<>> THEN 0 ELSE b[1] + Limb * IntOfBig(Tail(b))

\* the lowest limb of b, and the limbs above it
Low(b) == IF b = <<>> THEN 0 ELSE b[1]
High(b) == IF b = <<>> THEN <<>> ELSE Tail(b)

RECURSIVE BigMulSmall(_, _, _)
\* b * k + c, for 0 < k <= Limb
BigMulSmall(b, k, c) ==
    IF b = <<>> THEN BigOfInt(c)
    ELSE <<(b[1] * k + c) % Limb>> \o BigMulSmall(Tail(b), k, (b[1] * k + c) \div Limb)

RECURSIVE BigAdd(_, _, _)
\* a + b + c
BigAdd(a, b, c) ==
    IF a = <<>> /\ b = <<>> THEN BigOfInt(c)
    ELSE <<(Low(a) + Low(b) + c) % Limb>>
         \o BigAdd(High(a), High(b), (Low(a) + Low(b) + c) \div Limb)

\* one step of the long division by d: hi is the result for the limbs above
DivStep(hi, limb, d) ==
    [q |-> <<(hi.r * Limb + limb) \div d>> \o hi.q, r |-> (hi.r * Limb + limb) % d]

RECURSIVE BigDivSmall(_, _)
\* quotient (untrimmed) and remainder of b by d, for 0 < d <= Limb
BigDivSmall(b, d) ==
    IF b = <<>> THEN [q |-> <<>>, r |-> 0]
    ELSE DivStep(BigDivSmall(Tail(b), d), b[1], d)

\* b * 2^k
ShiftLeft(b, k) ==
    IF b = <<>> THEN <<>>
    ELSE [i \in 1..(k \div LimbBits) |-> 0] \o BigMulSmall(b, 2^(k % LimbBits), 0)

\* the number of bits of a limb n
BitLenInt(n) == Cardinality({k \in 0..(LimbBits - 1) : 2^k <= n})

\* the number of bits of b
BitLen(b) == IF b = <<>> THEN 0 ELSE LimbBits * (Len(b) - 1) + BitLenInt(b[Len(b)])

\* q rounded up by one when the half bit is set and either something follows
\* it or q is odd: round-half-even
RoundHalfEven(q, half, sticky) ==
    IF half = 1 /\ (sticky \/ Low(q) % 2 = 1) THEN BigAdd(q, <<>>, 1) ELSE q

\* dv is the part of b above its lowest limbs low, divided by 2^j: the top
\* bit of the remainder is the half bit, the rest of it and low follow it
DropBits(dv, j, low, sticky) ==
    RoundHalfEven(Trim(dv.q), dv.r \div 2^(j - 1),
                  sticky \/ dv.r % 2^(j - 1) # 0 \/ \E i \in DOMAIN low : low[i] # 0)

\* the integer nearest to (b + t) / 2^s, an exact half going to the even one;
\* sticky tells that the tail t, 0 <= t < 1, is not zero
RoundShift(b, s, sticky) ==
    IF s = 0 THEN b
    ELSE DropBits(BigDivSmall(SubSeq(b, (s - 1) \div LimbBits + 1, Len(b)),
                              2^(((s - 1) % LimbBits) + 1)),
                  ((s - 1) % LimbBits) + 1,
                  SubSeq(b, 1, IF (s - 1) \div LimbBits < Len(b)
                               THEN (s - 1) \div LimbBits ELSE Len(b)),
                  sticky)

\* M, of L bits, cut down to MantBits bits (round-half-even), times 2^e
RoundTo(M, L, sticky, e) ==
    IF L <= MantBits THEN [m |-> M, e |-> e]
    ELSE [m |-> RoundShift(M, L - MantBits, sticky), e |-> e + (L - MantBits)]

\* the float nearest to (M + t) * 2^e (round-half-even), sticky as above
Round53(M, sticky, e) == RoundTo(M, BitLen(M), sticky, e)

\* the bits to scale N up by, so that its quotient by a d <= Limb has more
\* than MantBits + 1 bits
ScaleBits(N) ==
    IF BitLen(N) < MantBits + LimbBits + 4 THEN MantBits + LimbBits + 4 - BitLen(N) ELSE 0

\* the float nearest to the quotient dv (with its remainder) times 2^e
RoundQuotient(dv, e) == Round53(Trim(dv.q), dv.r # 0, e)

\* the float nearest to (N * 2^k / d) * 2^(e - k)
ScaledRatio(N, d, e, k) == RoundQuotient(BigDivSmall(ShiftLeft(N, k), d), e - k)

\* the float nearest to (N / d) * 2^e, for 0 < d <= Limb
FloatOfRatio(N, d, e) ==
    IF N = <<>> THEN [m |-> <<>>, e |-> 0] ELSE ScaledRatio(N, d, e, ScaleBits(N))

\* float(Decimal): the float of a numeric cell of v.num / v.den cents
Float(v) == FloatOfRatio(BigOfInt(v.num), 100 * v.den, 0)

\* a * 2^ea + b * 2^eb as a multiple of 2^e, e the smaller exponent
AlignedSum(a, b, e) == BigAdd(ShiftLeft(a.m, a.e - e), ShiftLeft(b.m, b.e - e), 0)

\* a + b in float64
FloatAdd(a, b) ==
    Round53(AlignedSum(a, b, IF a.e < b.e THEN a.e ELSE b.e), FALSE,
            IF a.e < b.e THEN a.e ELSE b.e)

\* a / n in float64, n a positive count
FloatDiv(a, n) == FloatOfRatio(a.m, n, a.e)

\* Series.count(): the cells of the column that are not None
Count(df, col) == Cardinality({i \in DOMAIN df : ~IsNone(df[i][col])})

RECURSIVE FloatSumFrom(_, _, _)
FloatSumFrom(df, col, acc) ==
    IF df = <<>> THEN acc
    ELSE FloatSumFrom(Tail(df), col,
                      IF IsNone(df[1][col]) THEN acc ELSE FloatAdd(acc, Float(df[1][col])))

\* df[col].sum() of a column of fewer than 8 rows holding numbers: the cells
\* added up in row order, starting from 0.0; None cells are skipped
FloatSum(df, col) == FloatSumFrom(df, col, [m |-> <<>>, e |-> 0])

\* df[col].mean(): the sum divided by the count, for a count above zero
FloatMean(df, col) == FloatDiv(FloatSum(df, col), Count(df, col))

-----------------------------------------------------------------------------
(* Report Renderer: the format specs of lines 200-202, 243-254, 293-302    *)

RECURSIVE FormatInt(_)
\* f"{n:,}" of a non-negative int
FormatInt(n) ==
    IF n < 1000 THEN ToString(n) ELSE FormatInt(n \div 1000) \o "," \o Pad3(n % 1000)

\* the integer nearest to M * 2^e, an exact half going to the even one
NearestInt(M, e) ==
    IF e >= 0 THEN IntOfBig(ShiftLeft(M, e)) ELSE IntOfBig(RoundShift(M, -e, FALSE))

\* f"{x:.2f}" of a float: the exact binary value times 100, rounded to the
\* nearest integer, an exact half going to the even one; the result in cents
RoundCents(x) == IF x.m = <<>> THEN 0 ELSE NearestInt(BigMulSmall(x.m, 100, 0), x.e)

\* the text of c cents with and without thousands separators
MoneyText(c) == "$" \o FormatInt(c \div 100) \o "." \o Pad2(c % 100)
PriceText(c) == "$" \o ToString(c \div 100) \o "." \o Pad2(c % 100)

\* f"${x:,.2f}" of a float
FormatMoney(x) == MoneyText(RoundCents(x))

\* f"${x:.2f}" of a float
FormatPrice(x) == PriceText(RoundCents(x))

\* the exception a numeric format spec raises on a value, "none" if it formats
FormatError(v) ==
    IF IsNone(v) THEN "TypeError" ELSE IF IsStr(v) THEN "ValueError" ELSE "none"

RECURSIVE SumCells(_, _)
\* df[col].sum() of a column holding ints; None cells are skipped
SumCells(df, col) ==
    IF df = <<>> THEN 0
    ELSE (IF IsNone(df[1][col]) THEN 0 ELSE df[1][col].int) + SumCells(Tail(df), col)

\* the rows whose cell in col a numeric format spec rejects
Rejected(df, col) == {i \in DOMAIN df : FormatError(df[i][col]) # "none"}

\* df[col].apply(lambda x: f"{x:...}"): the exception of the first cell, in
\* row order, that does not format; "none" if the whole column formats
ApplyError(df, col) ==
    IF Rejected(df, col) = {} THEN "none"
    ELSE FormatError(df[CHOOSE i \in Rejected(df, col) :
                            \A j \in Rejected(df, col) : i <= j][col])

\* f"{df[col].sum():...}": str cells are concatenated by sum() and the str is
\* rejected by the format spec (ValueError); str cells next to other cells
\* make sum() itself fail (TypeError); "none" if the sum formats
SumError(df, col) ==
    IF \A i \in DOMAIN df : ~IsStr(df[i][col]) THEN "none"
    ELSE IF \A i \in DOMAIN df : IsStr(df[i][col]) THEN "ValueError"
    ELSE "TypeError"

NoRender == [exception |-> "none", metrics |-> <<>>, has_table |-> FALSE,
             table |-> <<>>, edited |-> <<>>]

\* lines 200-202
RenderOverview(df) ==
    LET m == df[1]
        skus == <<"Total SKUs", FormatInt(m.total_skus.int)>>
    IN  IF FormatError(m.total_units) # "none"
        THEN [NoRender EXCEPT !.exception = FormatError(m.total_units),
                              !.metrics = <<skus>>, !.edited = df]
        ELSE IF FormatError(m.total_revenue) # "none"
        THEN [NoRender EXCEPT !.exception = FormatError(m.total_revenue),
                              !.metrics = <<skus, <<"Units Sold", FormatInt(m.total_units.int)>> >>,
                              !.edited = df]
        ELSE [NoRender EXCEPT !.metrics = <<skus,
                                            <<"Units Sold", FormatInt(m.total_units.int)>>,
                                            <<"Total Revenue", FormatMoney(Float(m.total_revenue))>> >>,
                              !.edited = df]

\* line 221
RenderBestSellers(df) ==
    [NoRender EXCEPT !.has_table = TRUE, !.table = df, !.edited = df]

\* line 243: the column total_revenue replaced by its text
FormatTotalRevenue(df) ==
    [i \in DOMAIN df |-> [df[i] EXCEPT !.total_revenue = PyStr(FormatMoney(Float(@)))]]

\* line 244: the column average_price replaced by its text
FormatAveragePrice(df) ==
    [i \in DOMAIN df |-> [df[i] EXCEPT !.average_price = PyStr(FormatPrice(Float(@)))]]

\* line 245: the column total_units_sold replaced by its text
FormatTotalUnitsSold(df) ==
    [i \in DOMAIN df |-> [df[i] EXCEPT !.total_units_sold = PyStr(FormatInt(@.int))]]

\* lines 247-254: the table and the summary of the formatted frame
ProductPerformanceView(out) ==
    [NoRender EXCEPT
        !.has_table = TRUE, !.table = out, !.edited = out,
        !.metrics =
            <<<<"Total Products", ToString(Len(out))>>,
              <<"Products with Sales",
                ToString(Cardinality({i \in DOMAIN out : out[i].total_units_sold # PyStr("0")}))>>,
              <<"Products without Sales",
                ToString(Cardinality({i \in DOMAIN out : out[i].total_units_sold = PyStr("0")}))>> >>]

\* lines 243-254: the three columns are replaced in place by their text, one
\* statement after the other; a statement that raises leaves its column as it
\* was and the columns of the statements before it replaced
RenderProductPerformance(df) ==
    IF ApplyError(df, "total_revenue") # "none"
    THEN [NoRender EXCEPT !.exception = ApplyError(df, "total_revenue"), !.edited = df]
    ELSE IF ApplyError(df, "average_price") # "none"
    THEN [NoRender EXCEPT !.exception = ApplyError(df, "average_price"),
                          !.edited = FormatTotalRevenue(df)]
    ELSE IF ApplyError(df, "total_units_sold") # "none"
    THEN [NoRender EXCEPT !.exception = ApplyError(df, "total_units_sold"),
                          !.edited = FormatAveragePrice(FormatTotalRevenue(df))]
    ELSE ProductPerformanceView(
             FormatTotalUnitsSold(FormatAveragePrice(FormatTotalRevenue(df))))

\* line 293
ProductsLaunched(df) == <<"Products Launched", ToString(Len(df))>>
\* line 294
TotalUnitsSold(df) == <<"Total Units Sold", FormatInt(SumCells(df, "units_sold"))>>
\* line 295
TotalRevenue(df) == <<"Total Revenue", FormatMoney(FloatSum(df, "revenue"))>>
\* line 296: the mean of no cell is nan
AvgRevenue(df) ==
    <<"Avg Revenue/Product",
      IF Count(df, "revenue") = 0 THEN "$nan" ELSE FormatMoney(FloatMean(df, "revenue"))>>

\* line 300: the column revenue replaced by its text
FormatRevenue(df) ==
    [i \in DOMAIN df |-> [df[i] EXCEPT !.revenue = PyStr(FormatMoney(Float(@)))]]

\* line 301: the column units_sold replaced by its text
FormatUnitsSold(df) ==
    [i \in DOMAIN df |-> [df[i] EXCEPT !.units_sold = PyStr(FormatInt(@.int))]]

\* line 302: the table of the formatted frame under the four metrics
LaunchPeriodView(df, out) ==
    [NoRender EXCEPT !.has_table = TRUE, !.table = out, !.edited = out,
                     !.metrics = <<ProductsLaunched(df), TotalUnitsSold(df),
                                   TotalRevenue(df), AvgRevenue(df)>>]

\* lines 293-302, one statement after the other: the metrics shown before a
\* statement raises stay shown
RenderLaunchPeriod(df) ==
    IF SumError(df, "units_sold") # "none"
    THEN [NoRender EXCEPT !.exception = SumError(df, "units_sold"),
                          !.metrics = <<ProductsLaunched(df)>>, !.edited = df]
    ELSE IF SumError(df, "revenue") # "none"
    THEN [NoRender EXCEPT !.exception = SumError(df, "revenue"),
                          !.metrics = <<ProductsLaunched(df), TotalUnitsSold(df)>>,
                          !.edited = df]
    ELSE IF ApplyError(df, "revenue") # "none"
    THEN [NoRender EXCEPT !.exception = ApplyError(df, "revenue"),
                          !.metrics = <<ProductsLaunched(df), TotalUnitsSold(df),
                                        TotalRevenue(df), AvgRevenue(df)>>,
                          !.edited = df]
    ELSE IF ApplyError(df, "units_sold") # "none"
    THEN [NoRender EXCEPT !.exception = ApplyError(df, "units_sold"),
                          !.metrics = <<ProductsLaunched(df), TotalUnitsSold(df),
                                        TotalRevenue(df), AvgRevenue(df)>>,
                          !.edited = FormatRevenue(df)]
    ELSE LaunchPeriodView(df, FormatUnitsSold(FormatRevenue(df)))

Render(report_type, df) ==
    CASE report_type = "Overview" -> RenderOverview(df)
      [] report_type = "Best Sellers" -> RenderBestSellers(df)
      [] report_type = "Product Performance by Launch Date" -> RenderProductPerformance(df)
      [] report_type = "Launch Period Analysis" -> RenderLaunchPeriod(df)

-----------------------------------------------------------------------------
(* Admin panel (lines 135-183)                                             *)

\* the store's default for users.created_at: later than every stored row
NextCreatedAt(table) ==
    IF table = {} THEN 1
    ELSE 1 + (CHOOSE m \in {r.created_at : r \in table} :
                 \A r \in table : r.created_at <= m)

\* INSERT INTO users: the store rejects a second row with the same username
InsertUser(table, row) ==
    IF \E r \in table : r.username = row.username
    THEN [ok |-> FALSE, table |-> table]
    ELSE [ok |-> TRUE, table |-> table \cup {row}]

\* a bug: the emptiness test of line 147 is missing
add_user_unchecked(table, new_username, new_password, new_role, fault) ==
    IF fault # "none"
    THEN [table |-> table, msg |-> "error", text |-> "Error: OperationalError"]
    ELSE LET ins == InsertUser(table, [username |-> new_username,
                                       password_hash |-> hash_password(new_password),
                                       role |-> new_role,
                                       created_at |-> NextCreatedAt(table)])
         IN  IF ins.ok
             THEN [table |-> ins.table, msg |-> "success",
                   text |-> "User " \o new_username \o " added!"]
             ELSE [table |-> table, msg |-> "error", text |-> "Error: UniqueViolation"]

\* the "Add User" button (lines 146-169); fault is where the store fails:
\* "connect" (line 149), "execute" (line 157), "none"
add_user(table, new_username, new_password, new_role, fault) ==
    IF new_username # "" /\ new_password # ""
    THEN IF fault # "none"
         THEN [table |-> table, msg |-> "error", text |-> "Error: OperationalError"]
         ELSE LET ins == InsertUser(table, [username |-> new_username,
                                            password_hash |-> hash_password(new_password),
                                            role |-> new_role,
                                            created_at |-> NextCreatedAt(table)])
              IN  IF ins.ok
                  THEN [table |-> ins.table, msg |-> "success",
                        text |-> "User " \o new_username \o " added!"]
                  ELSE [table |-> table, msg |-> "error",
                        text |-> "Error: UniqueViolation"]
    ELSE [table |-> table, msg |-> "error", text |-> "Please fill all fields"]

\* the "View All Users" button (lines 172-183):
\* SELECT username, role, created_at FROM users ORDER BY created_at DESC
view_users(table, fault) ==
    IF fault # "none"
    THEN [msg |-> "error", listing |-> <<>>]
    ELSE LET f == CHOOSE g \in OrderBy(table, [r \in table |-> -r.created_at]) : TRUE
         IN  [msg |-> "shown",
              listing |-> [i \in DOMAIN f |-> [username |-> f[i].username,
                                               role |-> f[i].role,
                                               created_at |-> f[i].created_at]]]

-----------------------------------------------------------------------------
(* One run of the script (lines 104-304)                                   *)

\* the reports of the selector that have a branch in lines 186-302
QueryReports == {"Overview", "Best Sellers", "Product Performance by Launch Date",
                 "Launch Period Analysis"}

\* the options of the report selector (line 132)
ReportTypes == QueryReports \cup {"Worst Sellers", "Sales Trend", "Seasonal Analysis"}

NoQuery == [kind |-> "none", lo |-> "", hi |-> ""]

\* lines 122-127: the filter dates from what the range picker returns
StartDate(date_range) ==
    IF Len(date_range) = 2 THEN PyDate(date_range[1])
    ELSE IF Len(date_range) > 0 THEN PyDate(date_range[1]) ELSE PyDateTime(MinDate)

EndDate(date_range) ==
    IF Len(date_range) = 2 THEN PyDate(date_range[2]) ELSE PyDateTime(MaxDate)

\* the query text the selected report builds
BuildQuery(inp) ==
    IF inp.report_type = "Launch Period Analysis"
    THEN Query(inp.report_type, PyDate(inp.launch_start), PyDate(inp.launch_end))
    ELSE Query(inp.report_type, StartDate(inp.date_range), EndDate(inp.date_range))

\* the widget values of a first run of the app
DefaultInput(load_fault) ==
    [date_range |-> <<MinDate, MaxDate>>, report_type |-> "Overview",
     launch_start |-> LaunchStartDefault, launch_end |-> LaunchEndDefault,
     button |-> "none", new_user |-> "", new_pass |-> "", new_role |-> "user",
     admin_fault |-> "none", load_fault |-> load_fault]

NoSubmission == [submitted |-> FALSE, username |-> "", password |-> "",
                 fault |-> "none", verdict |-> <<FALSE, None>>]

EmptyRun ==
    [kind |-> "none", sub |-> NoSubmission, login_error |-> FALSE, stopped |-> FALSE,
     button |-> "none", admin_op |-> "none", new_user |-> "", new_pass |-> "", new_role |-> "user",
     admin_msg |-> "none", admin_text |-> "", listing |-> <<>>,
     report |-> "none", query_built |-> FALSE, query |-> NoQuery,
     loader_called |-> FALSE, returned |-> FALSE, hit |-> FALSE,
     opened |-> FALSE, closed |-> FALSE, exception |-> "none",
     df |-> <<>>, metrics |-> <<>>, has_table |-> FALSE, table |-> <<>>]

\* lines 142-144: the panel's three keyed widgets put their values in
\* session_state on every run that renders them
AdminWidgets(ss, inp) ==
    IF AdminPanel(ss)
    THEN Put(Put(Put(ss, "new_user", inp.new_user), "new_pass", inp.new_pass),
             "new_role", inp.new_role)
    ELSE ss

\* the admin panel of one run
AdminStep(ss, table, inp) ==
    IF AdminPanel(ss) /\ inp.button = "Add User"
    THEN LET a == add_user(table, inp.new_user, inp.new_pass, inp.new_role, inp.admin_fault)
         IN  [op |-> "add_user", table |-> a.table, msg |-> a.msg, text |-> a.text,
              listing |-> <<>>]
    ELSE IF AdminPanel(ss) /\ inp.button = "View All Users"
    THEN LET v == view_users(table, inp.admin_fault)
         IN  [op |-> "view_users", table |-> table, msg |-> v.msg, text |-> "",
              listing |-> v.listing]
    ELSE [op |-> "none", table |-> table, msg |-> "none", text |-> "", listing |-> <<>>]

\* the outcome of a run whose report built the query q, called load_data
\* (ld) and rendered what it returned (rd); base is the run up to the report
ReportRun(base, q, ld, rd) ==
    [base EXCEPT !.query_built = TRUE, !.query = q, !.loader_called = TRUE,
                 !.returned = ld.returned, !.hit = ld.hit,
                 !.opened = ld.opened, !.closed = ld.closed,
                 !.exception = IF ld.exception # "none" THEN ld.exception
                               ELSE rd.exception,
                 !.df = ld.df, !.metrics = rd.metrics,
                 !.has_table = rd.has_table, !.table = rd.table]

\* the script from line 104 on, with ss the session state after the callbacks
\* of the event; sub is what the callback submitted, if it ran
Run(ss, inp, sub) ==
    /\ last_event' = "run"
    /\ UNCHANGED <<sales, launched_products>>
    /\ IF ~check_password(ss)
       THEN \* lines 94-102 and 105-106: the login form, then st.stop()
            /\ session_state' = LoginForm(ss)
            /\ screen' = "login"
            /\ lastRun' = [EmptyRun EXCEPT !.kind = "login", !.sub = sub,
                                           !.login_error = LoginError(ss),
                                           !.stopped = TRUE]
            /\ UNCHANGED <<users, cache>>
       ELSE LET a == AdminStep(ss, users, inp)
                has_query == inp.report_type \in QueryReports
                q == IF has_query THEN BuildQuery(inp) ELSE NoQuery
                answers == IF has_query /\ q \notin DOMAIN cache /\ inp.load_fault = "none"
                           THEN Execute(q, sales, launched_products)
                           ELSE {<<>>}
                base == [EmptyRun EXCEPT !.kind = "app", !.sub = sub,
                                         !.button = inp.button,
                                         !.admin_op = a.op, !.admin_msg = a.msg,
                                         !.admin_text = a.text, !.listing = a.listing,
                                         !.new_user = IF a.op = "add_user" THEN inp.new_user ELSE "",
                                         !.new_pass = IF a.op = "add_user" THEN inp.new_pass ELSE "",
                                         !.new_role = IF a.op = "add_user" THEN inp.new_role ELSE "user",
                                         !.report = inp.report_type]
            IN  /\ Cardinality(a.table) <= MaxUsers
                /\ session_state' = AdminWidgets(ss, inp)
                /\ screen' = "app"
                /\ users' = a.table
                /\ IF ~has_query
                   THEN /\ lastRun' = base
                        /\ UNCHANGED cache
                   ELSE \E res \in answers :
                          LET ld == load_data(cache, q, inp.load_fault, res)
                              rd == IF ld.returned THEN Render(inp.report_type, ld.df)
                                    ELSE NoRender
                          IN  /\ Cardinality(DOMAIN ld.cache) <= MaxCache
                              /\ cache' = StoreAfterCallerEdits(ld.cache, q, rd.edited)
                              /\ lastRun' = ReportRun(base, q, ld, rd)

-----------------------------------------------------------------------------
(* Events                                                                  *)

\* the browser opens the page: the first run of the script
OpenSession ==
    /\ screen = "none"
    /\ Run(session_state, DefaultInput("none"), NoSubmission)

\* the user changes one of the two login inputs: its value is stored under
\* its key, credentials_entered runs, then the script runs
EnterCredentials(field, value, fault, load_fault) ==
    /\ screen = "login"
    /\ session_state[field] # value
    /\ LET ss1 == Put(session_state, field, value)
           ss2 == credentials_entered(ss1, users, fault)
           sub == [submitted |-> TRUE, username |-> ss1["username"],
                   password |-> ss1["password"], fault |-> fault,
                   verdict |-> verify_credentials(users, ss1["username"],
                                                  ss1["password"], fault)]
       IN  Run(ss2, DefaultInput(load_fault), sub)

\* the user changes a widget of the app or presses one of its buttons
Interact(inp) ==
    /\ screen = "app"
    /\ Run(session_state, inp, NoSubmission)

\* the external ingestion process appends a sale
Ingest(row) ==
    /\ Len(sales) < MaxSales
    /\ sales' = Append(sales, row)
    /\ last_event' = "ingest"
    /\ UNCHANGED <<users, launched_products, cache, session_state, screen, lastRun>>

-----------------------------------------------------------------------------
(* Initial tables and the values the events draw from                      *)

Sale(sku, date, quantity, cents, price) ==
    [master_sku |-> sku, order_date |-> date, quantity_ordered |-> quantity,
     sales_ordered |-> cents, avg_price |-> price]

\* the rows the ingestion process delivers, in order of arrival
SaleFeed == <<Sale("A1", 20240601, 3, 9000, 3000),
              Sale("B2", 20250115, 1, 125000, 125000),
              Sale("A1", 20240701, 2, 6000, 3000)>>

InitUsers ==
    {[username |-> "admin1", password_hash |-> hash_password("secret"),
      role |-> "admin", created_at |-> 1],
     [username |-> "bob", password_hash |-> hash_password("pw"),
      role |-> "user", created_at |-> 2]}

InitLaunched ==
    {[sku |-> "A1", created_at |-> 20240115],
     [sku |-> "B2", created_at |-> 20250115],
     [sku |-> "C3", created_at |-> 20250115]}

Faults == {"none", "connect", "execute"}
LoadFaults == {"none", "connect", "query"}
Buttons == {"none", "Add User", "View All Users"}

\* interactions with the sidebar's admin panel and report selector
AdminInputs ==
    {[DefaultInput(lf) EXCEPT !.report_type = rt, !.button = b[1], !.new_user = b[2],
                              !.new_pass = b[3], !.new_role = b[4], !.admin_fault = b[5]] :
        lf \in {"none", "query"}, rt \in {"Overview", "Sales Trend"},
        b \in {<<"none", "", "", "user", "none">>}
              \cup ({"Add User"} \X {"", "admin1", "carol", "dave"} \X {"", "pw"}
                        \X {"user", "admin"} \X Faults)
              \cup ({"View All Users"} \X {""} \X {""} \X {"user"} \X Faults)}

\* what the range picker can return: two dates, one date, nothing
DateRanges == {<<MinDate, MaxDate>>, <<MinDate, 20240601>>, <<20240701>>, <<>>}

\* what the two launch-period pickers can return
LaunchPeriods == {<<LaunchStartDefault, LaunchEndDefault>>, <<MinDate, LaunchMaxDate>>,
                  <<LaunchEndDefault, LaunchStartDefault>>}

\* interactions with the filters, the report selector and the report's pickers
ReportInputs ==
    {[DefaultInput(lf) EXCEPT !.report_type = c[1], !.date_range = c[2]] :
        lf \in LoadFaults,
        c \in ({"Overview"} \X (DateRanges \ {<<>>}))
              \cup ({"Best Sellers"} \X {<<MinDate, MaxDate>>})
              \cup ({"Worst Sellers", "Seasonal Analysis"} \X {<<MinDate, MaxDate>>})
              \cup ({"Product Performance by Launch Date"} \X {<<MinDate, MaxDate>>, <<>>})}
    \cup
    {[DefaultInput(lf) EXCEPT !.report_type = "Launch Period Analysis",
                              !.launch_start = lp[1], !.launch_end = lp[2]] :
        lf \in LoadFaults, lp \in LaunchPeriods}

TablesInit ==
    /\ users = InitUsers
    /\ launched_products = InitLaunched
    /\ cache = <<>>
    /\ session_state = <<>>
    /\ screen = "none"
    /\ last_event = "none"
    /\ lastRun = EmptyRun

-----------------------------------------------------------------------------
(* Spec: logging in and the admin panel, over a fixed sales table          *)

Init ==
    /\ TablesInit
    /\ sales = <<Sale("A1", 20240601, 3, 9000, 3000), Sale("A1", 20240701, 2, 6000, 3000)>>

Login ==
    \E field \in {"username", "password"},
       value \in {"", "admin1", "bob", "eve", "secret", "pw", "wrong"},
       fault \in Faults, load_fault \in {"none", "query"} :
        /\ field = "username" => value \in {"", "admin1", "bob", "eve"}
        /\ field = "password" => value \in {"", "secret", "pw", "wrong"}
        /\ EnterCredentials(field, value, fault, load_fault)

Administer == \E inp \in AdminInputs : Interact(inp)

Next == OpenSession \/ Login \/ Administer

Spec == Init /\ [][Next]_vars

-----------------------------------------------------------------------------
(* SpecReports: a standard user browsing the reports while sales arrive    *)

InitReports ==
    /\ TablesInit
    /\ sales = <<>>

LoginBob ==
    \E field \in {"username", "password"}, load_fault \in LoadFaults :
        EnterCredentials(field, IF field = "username" THEN "bob" ELSE "pw",
                         "none", load_fault)

Browse == \E inp \in ReportInputs : Interact(inp)

Ingestion == Len(sales) < Len(SaleFeed) /\ Ingest(SaleFeed[Len(sales) + 1])

NextReports == OpenSession \/ LoginBob \/ Browse \/ Ingestion

SpecReports == InitReports /\ [][NextReports]_vars

-----------------------------------------------------------------------------
(* Properties                                                              *)

Authenticated(ss) == Get(ss, "password_correct", FALSE)

\* C1: verify_credentials(username, password) returns (True, role) exactly
\* when the lookup succeeds and finds a users row with that username whose
\* password_hash is sha256(password), role being that row's role; a wrong
\* password, an unknown username and a failing connection or lookup all
\* give (False, None).
C1_VerifyCredentials ==
    (last_event = "run" /\ lastRun.sub.submitted) =>
        LET sub == lastRun.sub
            matches == {r \in users : /\ r.username = sub.username
                                      /\ r.password_hash = hash_password(sub.password)}
        IN  IF sub.fault = "none" /\ matches # {}
            THEN sub.verdict[1] /\ \E r \in matches : sub.verdict[2] = r.role
            ELSE sub.verdict = <<FALSE, None>>

\* a submission of the stored admin's credentials was verified
C1_Witness ==
    /\ lastRun.sub.submitted
    /\ lastRun.sub.password = "secret"
    /\ lastRun.sub.verdict = <<TRUE, "admin">>

\* C2: a session becomes Authenticated only in a step whose submission was
\* verified as (True, r), and then records r and the submitted username; the
\* record never changes afterwards; a submission that fails verification
\* leaves an Anonymous session Anonymous, with no role and no logged-in user.
C2_SessionFollowsVerdict ==
    [][/\ (Authenticated(session_state') /\ ~Authenticated(session_state)) =>
            /\ lastRun'.sub.submitted
            /\ lastRun'.sub.verdict = <<TRUE, session_state'["user_role"]>>
            /\ lastRun'.sub.username = session_state'["logged_in_user"]
       /\ Authenticated(session_state) =>
            /\ Authenticated(session_state')
            /\ session_state'["user_role"] = session_state["user_role"]
            /\ session_state'["logged_in_user"] = session_state["logged_in_user"]
       /\ (/\ last_event' = "run" /\ lastRun'.sub.submitted
           /\ ~lastRun'.sub.verdict[1] /\ ~Authenticated(session_state)) =>
            ~Authenticated(session_state')
       /\ ~Authenticated(session_state') =>
            {"user_role", "logged_in_user"} \cap DOMAIN session_state' = {}
      ]_vars

\* a standard user is logged in by the submission just made
C2_Witness ==
    /\ Authenticated(session_state)
    /\ lastRun.sub.submitted
    /\ session_state["user_role"] = "user"
    /\ session_state["logged_in_user"] = "bob"

\* C3: a run builds a query, calls the Data Loader, renders a report or
\* executes a user-management operation only in an Authenticated session;
\* the run of an Anonymous session shows the login form and stops.
C3_AuthenticationGate ==
    /\ (\/ lastRun.kind = "app" \/ lastRun.query_built \/ lastRun.loader_called
        \/ lastRun.metrics # <<>> \/ lastRun.has_table \/ lastRun.admin_op # "none")
          => Authenticated(session_state)
    /\ (lastRun.kind # "none" /\ ~Authenticated(session_state)) =>
          /\ lastRun.kind = "login"
          /\ lastRun.stopped
          /\ screen = "login"

\* a run that followed a rejected submission stopped at the login form
C3_Witness ==
    /\ lastRun.sub.submitted
    /\ lastRun.sub.username = "admin1"
    /\ ~Authenticated(session_state)
    /\ lastRun.stopped
    /\ lastRun.login_error

\* C4: a user is inserted or the users are listed only in a session whose
\* recorded role is admin, and the listing has the columns username, role
\* and created_at only.
C4_AdminOnly ==
    [][/\ (last_event' = "run" /\ lastRun'.admin_op # "none") =>
            Get(session_state', "user_role", None) = "admin"
       /\ users' # users =>
            /\ Get(session_state, "user_role", None) = "admin"
            /\ lastRun'.admin_op = "add_user"
       /\ \A i \in DOMAIN lastRun'.listing :
            DOMAIN lastRun'.listing[i] = {"username", "role", "created_at"}
      ]_vars

\* a standard user's session received an "Add User" event and nothing ran
C4_Witness ==
    /\ Get(session_state, "user_role", None) = "user"
    /\ lastRun.button = "Add User"
    /\ lastRun.admin_op = "none"
    /\ users = InitUsers

\* C7: "Add User" with an empty username or password inserts nothing and
\* shows an error; with a username already stored it fails with the store's
\* uniqueness violation, shown as an error, and inserts nothing; a successful
\* submission adds exactly one row, with sha256(password) and the chosen role.
C7_AddUser ==
    [][(last_event' = "run" /\ lastRun'.admin_op = "add_user") =>
          LET r == lastRun'
          IN  /\ (r.new_user = "" \/ r.new_pass = "") =>
                    /\ users' = users
                    /\ r.admin_msg = "error"
                    /\ r.admin_text = "Please fill all fields"
              /\ (/\ r.new_user # "" /\ r.new_pass # ""
                  /\ \E u \in users : u.username = r.new_user) =>
                    /\ users' = users
                    /\ r.admin_msg = "error"
              /\ r.admin_msg = "success" =>
                    \E row \in users' \ users :
                        /\ users' = users \cup {row}
                        /\ row.username = r.new_user
                        /\ row.password_hash = hash_password(r.new_pass)
                        /\ row.role = r.new_role
                        /\ \A u \in users : u.username # row.username
      ]_vars

\* the stored admin's username was submitted again and refused
C7_Witness ==
    /\ lastRun.admin_op = "add_user"
    /\ lastRun.new_user = "admin1"
    /\ lastRun.admin_text = "Error: UniqueViolation"

\* C5: a call of load_data whose query text is already in the store returns
\* the stored table without opening a connection; what a call returns is what
\* the store holds for its text afterwards; and an entry of the store is never
\* altered or dropped, whatever the renderer does to the table it was given.
\* Hence two calls with the same text return the same table.
C5_CacheHit ==
    [][/\ \A q \in DOMAIN cache : q \in DOMAIN cache' /\ cache'[q] = cache[q]
       /\ (/\ last_event' = "run" /\ lastRun'.loader_called
           /\ lastRun'.query \in DOMAIN cache) =>
            /\ lastRun'.returned
            /\ lastRun'.hit
            /\ ~lastRun'.opened
            /\ lastRun'.exception \notin {"OperationalError", "DatabaseError"}
            /\ lastRun'.df = cache[lastRun'.query]
       /\ (last_event' = "run" /\ lastRun'.returned) =>
            /\ lastRun'.query \in DOMAIN cache'
            /\ cache'[lastRun'.query] = lastRun'.df
      ]_vars

\* a report whose renderer rewrites columns in place was served from the store
C5_Witness ==
    /\ lastRun.report = "Product Performance by Launch Date"
    /\ lastRun.hit
    /\ lastRun.has_table
    /\ lastRun.table # lastRun.df

\* C6: a connection or query failure of a report's data load is caught where
\* load_data was called and shown as an error of the report: no exception
\* escapes the run.
C6_LoadFailureCaught ==
    (last_event = "run" /\ lastRun.loader_called /\ ~lastRun.returned) =>
        lastRun.exception = "none"

\* the rows of sales the Overview query of the last run selects now
OverviewRows ==
    SelectSeq(sales, LAMBDA s : Between(s.order_date, ParseDate(lastRun.query.lo),
                                        ParseDate(lastRun.query.hi)))

\* C8: whenever the Overview report is shown for start <= end, its metrics are
\* the number of distinct master_sku and the sums of quantity_ordered and
\* sales_ordered over the rows of sales with order_date in [start, end], also
\* when no row is in the range and when the range was queried before the table
\* changed.
C8_OverviewSums ==
    (/\ last_event = "run" /\ lastRun.report = "Overview" /\ lastRun.returned
     /\ ParseDate(lastRun.query.lo) <= ParseDate(lastRun.query.hi)) =>
        lastRun.metrics =
            << <<"Total SKUs", FormatInt(CountDistinctSku(OverviewRows))>>,
               <<"Units Sold", FormatInt(SumField(OverviewRows, "quantity_ordered"))>>,
               <<"Total Revenue", FormatMoney(Float(PyNum(SumField(OverviewRows, "sales_ordered"), 1)))>> >>

JoinReports == {"Product Performance by Launch Date", "Launch Period Analysis"}

\* the rows of the last run's table that are about the launched product lp
RowsOf(lp) ==
    {i \in DOMAIN lastRun.df : /\ lastRun.df[i].sku = PyStr(lp.sku)
                               /\ lastRun.df[i].launch_date = PyDate(lp.created_at)}

\* the sales the join of the last run's report matches to lp
Matching(lp) ==
    SelectSeq(sales, LAMBDA s :
        /\ s.master_sku = lp.sku
        /\ lastRun.report = "Product Performance by Launch Date" =>
              Between(s.order_date, ParseDate(lastRun.query.lo), ParseDate(lastRun.query.hi)))

\* the aggregates of row i are zero, not null
ZeroFilled(i) ==
    LET r == lastRun.df[i]
    IN  IF lastRun.report = "Product Performance by Launch Date"
        THEN /\ r.total_units_sold = PyInt(0)
             /\ r.total_revenue = PyNum(0, 1)
             /\ r.average_price = PyNum(0, 1)
        ELSE /\ r.units_sold = PyInt(0)
             /\ r.revenue = PyNum(0, 1)

\* C9 as claimed: in both join reports every launched product has exactly one
\* row, with zero aggregates when no sale matches it.
C9_EveryProductOnce ==
    (last_event = "run" /\ lastRun.report \in JoinReports /\ lastRun.returned) =>
        \A lp \in launched_products :
            /\ Cardinality(RowsOf(lp)) = 1
            /\ Matching(lp) = <<>> => \A i \in RowsOf(lp) : ZeroFilled(i)

\* the launched products the last run's report is about: all of them in
\* Product Performance by Launch Date, those launched within the launch
\* period in Launch Period Analysis
Reported ==
    IF lastRun.report = "Product Performance by Launch Date"
    THEN launched_products
    ELSE {lp \in launched_products :
            Between(lp.created_at, ParseDate(lastRun.query.lo), ParseDate(lastRun.query.hi))}

\* C9 amended: Product Performance by Launch Date has exactly one row for
\* every launched product; Launch Period Analysis has exactly one row for every
\* product launched within [launch_start, launch_end] and none for any other;
\* a row whose product no sale matches has zero aggregates, not null.
C9_ReportedProductsOnce ==
    (last_event = "run" /\ lastRun.report \in JoinReports /\ lastRun.returned) =>
        /\ Len(lastRun.df) = Cardinality(Reported)
        /\ \A lp \in launched_products :
            /\ Cardinality(RowsOf(lp)) = IF lp \in Reported THEN 1 ELSE 0
            /\ Matching(lp) = <<>> => \A i \in RowsOf(lp) : ZeroFilled(i)

\* Launch Period Analysis left a launched product out and zero-filled another
C9_Witness ==
    /\ lastRun.report = "Launch Period Analysis"
    /\ lastRun.returned
    /\ Len(lastRun.df) = 2
    /\ \E lp \in launched_products : RowsOf(lp) = {}
    /\ \E lp \in launched_products :
          RowsOf(lp) # {} /\ Matching(lp) = <<>> /\ \A i \in RowsOf(lp) : ZeroFilled(i)

\* C10: a call of load_data that opened a connection has closed it when the
\* call ends, also when executing the query raised.
C10_ConnectionClosed ==
    (last_event = "run" /\ lastRun.loader_called /\ lastRun.opened) => lastRun.closed

=============================================================================
